---------------------------- MODULE Spec2Model ----------------------------
(***************************************************************************)
(* Model of blender_to_babylon.py: a batch loop that drives the host       *)
(* (Blender's bpy) through reset -> import -> count -> select -> export    *)
(* for every file name of a fixed list, skipping missing sources and       *)
(* catching, at the item boundary, the host faults that are Exceptions.    *)
(*                                                                         *)
(* The host is an external collaborator.  Its scene is modelled as the     *)
(* objects linked to the scene and the mesh / armature / action data       *)
(* blocks of bpy.data with their user counts; every host call may raise.   *)
(***************************************************************************)
EXTENDS Naturals, Sequences, FiniteSets

\* Longest job list explored.
MaxJobs == 2

\* Longest free prefix of a file name explored by the naming specification.
MaxPrefix == 4

VARIABLES
    files,      \* fbx_files: the job list, a sequence of file names
    fs,         \* the file names that exist in fbx_folder
    idx,        \* position of the for loop: number of the current item, 0 before the first
    pc,         \* the statement the script is about to run
    fbx_path,   \* file-name part of fbx_path of the current item
    glb_path,   \* file-name part of glb_path of the current item
    scene,      \* the host's scene: objects and data blocks
    outcome,    \* per item: the marker printed for it
    calls,      \* every host call issued so far, in order: [item, op]
    faultAt,    \* per item: the host call that raised, "none" if none did
    reported,   \* per item: the counts printed by line 64
    written,    \* destination files written by the exporter
    imported,   \* per item: the objects its import call loaded
    iterator,   \* how the host's collections iterate while blocks are removed
    banner      \* how many times "Conversion Complete!" was printed

vars == <<files, fs, idx, pc, fbx_path, glb_path, scene, outcome, calls,
          faultAt, reported, written, imported, iterator, banner>>

-----------------------------------------------------------------------------
(* File names: sequences of one-character strings.                         *)

FBX == <<".", "f", "b", "x">>
GLB == <<".", "g", "l", "b">>

\* str.replace(old, new): every non-overlapping occurrence, left to right.
RECURSIVE Replace(_, _, _)
Replace(s, old, new) ==
    IF Len(s) < Len(old) THEN s
    ELSE IF SubSeq(s, 1, Len(old)) = old
         THEN new \o Replace(SubSeq(s, Len(old) + 1, Len(s)), old, new)
         ELSE <<Head(s)>> \o Replace(Tail(s), old, new)

\* fbx_file.replace(".fbx", ".glb")
GlbName(fbx_file) == Replace(fbx_file, FBX, GLB)

\* The job lists of the batch specification hold these names.
JobNames == { <<"a">> \o FBX, <<"b", " ", "c">> \o FBX }

RECURSIVE SeqsUpTo(_, _)
SeqsUpTo(S, n) ==
    IF n = 0 THEN { <<>> }
    ELSE LET shorter == SeqsUpTo(S, n - 1)
         IN  shorter \cup { Append(s, x) : s \in shorter, x \in S }

-----------------------------------------------------------------------------
(* The host scene.                                                         *)

EmptyScene == [objects |-> {}, meshes |-> {}, armatures |-> {}, actions |-> {}]

Obj(k, t, d, a, s) == [origin |-> k, type |-> t, data |-> d, act |-> a, sel |-> s]
Blk(k, n, a, f)    == [origin |-> k, name |-> n, act |-> a, fake |-> f]

Card(S) == Cardinality(S)

\* block.users of a mesh data block
MeshUsers(sc, b) ==
    (IF b.fake THEN 1 ELSE 0)
    + Card({o \in sc.objects : o.type = "MESH" /\ o.origin = b.origin /\ o.data = b.name})

\* block.users of an armature data block
ArmatureUsers(sc, b) ==
    (IF b.fake THEN 1 ELSE 0)
    + Card({o \in sc.objects : o.type = "ARMATURE" /\ o.origin = b.origin /\ o.data = b.name})

\* block.users of an action: objects, and mesh / armature data animated by it
ActionUsers(sc, b) ==
    (IF b.fake THEN 1 ELSE 0)
    + Card({o \in sc.objects : o.origin = b.origin /\ o.act = b.name})
    + Card({m \in sc.meshes : m.origin = b.origin /\ m.act = b.name})
    + Card({r \in sc.armatures : r.origin = b.origin /\ r.act = b.name})

OrphanMeshes(sc)    == {b \in sc.meshes : MeshUsers(sc, b) = 0}
OrphanArmatures(sc) == {b \in sc.armatures : ArmatureUsers(sc, b) = 0}
OrphanActions(sc)   == {b \in sc.actions : ActionUsers(sc, b) = 0}


\* bpy.ops.object.select_all(action='SELECT')
SelectAll(sc) == [sc EXCEPT !.objects = {[o EXCEPT !.sel = TRUE] : o \in sc.objects}]

\* A mutant of DeleteSelected: the delete operator removes nothing.
DeleteSelectedNothing(sc) == sc

\* bpy.ops.object.delete(): the selected objects leave the scene and bpy.data
DeleteSelected(sc) == [sc EXCEPT !.objects = {o \in sc.objects : ~o.sel}]

\* bpy.data collections are kept in name order; equal names are told apart
\* by the import that made them.
NameRank(n) ==
    CASE n = "body"   -> 1
      [] n = "Cube"   -> 2
      [] n = "keys"   -> 3
      [] n = "rig"    -> 4
      [] n = "spare"  -> 5
      [] n = "spare2" -> 6
      [] n = "take"   -> 7

Before(a, b) ==
    \/ NameRank(a.name) < NameRank(b.name)
    \/ NameRank(a.name) = NameRank(b.name) /\ a.origin < b.origin

\* A collection of bpy.data as the sequence a for loop walks.
RECURSIVE Ordered(_)
Ordered(S) ==
    IF S = {} THEN <<>>
    ELSE LET first == CHOOSE x \in S : \A y \in S \ {x} : Before(x, y)
         IN  <<first>> \o Ordered(S \ {first})

\* How the host's iterator goes on once the loop body has removed the block at
\* position i of the collection it walks: "position" steps to i + 1 of the
\* shrunk collection, passing over the block that moved up to i; "linked" had
\* taken its successor before the body ran and visits it.  Which one a host
\* build does is not set by the script.
Iterators == {"position", "linked"}

AfterRemoval(i) == IF iterator = "position" THEN i + 1 ELSE i

\* for block in bpy.data.meshes: if block.users == 0: bpy.data.meshes.remove(block)
\* The loop walks the live collection: i is its position in bpy.data.meshes,
\* and `left` is the number of remove calls that return before one raises
\* (the size of the collection when none does).
RECURSIVE PurgeMeshLoop(_, _, _)
PurgeMeshLoop(sc, i, left) ==
    LET live == Ordered(sc.meshes)
    IN  IF i > Len(live) THEN sc
        ELSE IF MeshUsers(sc, live[i]) = 0
             THEN IF left = 0 THEN sc
                  ELSE PurgeMeshLoop([sc EXCEPT !.meshes = sc.meshes \ {live[i]}],
                                     AfterRemoval(i), left - 1)
             ELSE PurgeMeshLoop(sc, i + 1, left)

PurgeMeshes(sc) == PurgeMeshLoop(sc, 1, Card(sc.meshes))

\* for block in bpy.data.armatures: if block.users == 0: bpy.data.armatures.remove(block)
RECURSIVE PurgeArmatureLoop(_, _, _)
PurgeArmatureLoop(sc, i, left) ==
    LET live == Ordered(sc.armatures)
    IN  IF i > Len(live) THEN sc
        ELSE IF ArmatureUsers(sc, live[i]) = 0
             THEN IF left = 0 THEN sc
                  ELSE PurgeArmatureLoop([sc EXCEPT !.armatures = sc.armatures \ {live[i]}],
                                         AfterRemoval(i), left - 1)
             ELSE PurgeArmatureLoop(sc, i + 1, left)

PurgeArmatures(sc) == PurgeArmatureLoop(sc, 1, Card(sc.armatures))

\* for block in bpy.data.actions: if block.users == 0: bpy.data.actions.remove(block)
RECURSIVE PurgeActionLoop(_, _, _)
PurgeActionLoop(sc, i, left) ==
    LET live == Ordered(sc.actions)
    IN  IF i > Len(live) THEN sc
        ELSE IF ActionUsers(sc, live[i]) = 0
             THEN IF left = 0 THEN sc
                  ELSE PurgeActionLoop([sc EXCEPT !.actions = sc.actions \ {live[i]}],
                                       AfterRemoval(i), left - 1)
             ELSE PurgeActionLoop(sc, i + 1, left)

PurgeActions(sc) == PurgeActionLoop(sc, 1, Card(sc.actions))

\* Lines 42-55 as one function of the scene: clear scene, then clear orphan data.
ResetScene(sc) ==
    PurgeActions(PurgeArmatures(PurgeMeshes(DeleteSelected(SelectAll(sc)))))

\* What a source file can hold, as loaded by item k.  The importer leaves the
\* objects it creates selected.
Character(k) ==
    [objects   |-> {Obj(k, "ARMATURE", "rig", "take", TRUE), Obj(k, "MESH", "body", "", TRUE)},
     meshes    |-> {Blk(k, "body", "", FALSE)},
     armatures |-> {Blk(k, "rig", "", FALSE)},
     actions   |-> {Blk(k, "take", "", TRUE)}]

AnimationOnly(k) ==
    [objects   |-> {Obj(k, "ARMATURE", "rig", "take", TRUE)},
     meshes    |-> {},
     armatures |-> {Blk(k, "rig", "", FALSE)},
     actions   |-> {Blk(k, "take", "", FALSE)}]

ShapeKeys(k) ==
    [objects   |-> {Obj(k, "MESH", "body", "take", TRUE)},
     meshes    |-> {Blk(k, "body", "keys", FALSE)},
     armatures |-> {},
     actions   |-> {Blk(k, "take", "", FALSE), Blk(k, "keys", "", FALSE)}]

Contents(k) == {Character(k), AnimationOnly(k), ShapeKeys(k), EmptyScene}

\* What an importer that raises may have loaded by then: nothing, or the data
\* blocks without the objects that would use them.
PartialContents(k) ==
    {EmptyScene} \cup {[c EXCEPT !.objects = {}] : c \in Contents(k)}

\* bpy.ops.import_scene.fbx(filepath=fbx_path): the content joins the scene
Import(sc, c) ==
    [objects   |-> sc.objects \cup c.objects,
     meshes    |-> sc.meshes \cup c.meshes,
     armatures |-> sc.armatures \cup c.armatures,
     actions   |-> sc.actions \cup c.actions]

\* len([obj for obj in bpy.data.objects if obj.type == 'MESH'])
MeshCount(sc) == Card({o \in sc.objects : o.type = "MESH"})

\* len([obj for obj in bpy.data.objects if obj.type == 'ARMATURE'])
ArmatureCount(sc) == Card({o \in sc.objects : o.type = "ARMATURE"})

\* What bpy.ops.export_scene.gltf serialises, by the item that imported it.
\* The call passes no use_selection, so every object of the scene is taken,
\* selected or not; with export_animations=True the actions of bpy.data go
\* into the file as its animations.
ExportedOrigins(sc) ==
    {o.origin : o \in sc.objects} \cup {a.origin : a \in sc.actions}

\* The scenes the host may hold when the script starts (origin 0).
StartScenes ==
    { EmptyScene,
      [objects   |-> {Obj(0, "MESH", "Cube", "", FALSE), Obj(0, "CAMERA", "", "", TRUE)},
       meshes    |-> {Blk(0, "Cube", "", FALSE)},
       armatures |-> {},
       actions   |-> {}],
      [objects   |-> {Obj(0, "ARMATURE", "rig", "take", FALSE)},
       meshes    |-> {Blk(0, "spare", "", FALSE), Blk(0, "spare2", "", FALSE)},
       armatures |-> {Blk(0, "rig", "take", FALSE)},
       actions   |-> {Blk(0, "take", "", FALSE)}] }

-----------------------------------------------------------------------------
(* The script.                                                             *)

\* The host calls of the try body, in the order of lines 43-76.
StepOrder ==
    <<"select_clear", "delete", "purge_meshes", "purge_armatures", "purge_actions",
      "import", "count", "select_export", "export">>

Steps == {StepOrder[i] : i \in 1..Len(StepOrder)}

Position(step) == CHOOSE i \in 1..Len(StepOrder) : StepOrder[i] = step

\* The call that follows a call that returned; after the export, the next item.
StepAfter(step) ==
    IF step = "export" THEN "loop" ELSE StepOrder[Position(step) + 1]

\* A mutant of AfterCount: an item with no mesh is abandoned.
AfterCountValidated(mesh_count, armature_count) ==
    IF mesh_count = 0 THEN "loop" ELSE StepAfter("count")

\* Lines 62-66: the counts are printed and nothing else is done with them.
AfterCount(mesh_count, armature_count) == StepAfter("count")

\* What a host call can raise: an error of a class derived from Exception, or
\* one that is not (KeyboardInterrupt, SystemExit).
ErrorClasses == {"RuntimeError", "KeyboardInterrupt"}

\* Line 80: the classes that except Exception matches.
IsException(e) == e = "RuntimeError"

\* Line 80: except Exception swallows an Exception and the for loop goes on;
\* anything else leaves the loop and the script.
AfterFault(e) == IF IsException(e) THEN "loop" ELSE "aborted"

\* A mutant of AfterNotFound: the continue is missing.
AfterNotFoundFallThrough == "select_clear"

\* Line 39: continue.
AfterNotFound == "loop"

\* Line 33: the for statement takes the next element of fbx_files.
NextIndex(i) == i + 1

NoOutcome  == [tag |-> "none", reason |-> ""]
Converted  == [tag |-> "Converted", reason |-> ""]
Skipped    == [tag |-> "Skipped", reason |-> "NotFound"]
Failed(e)  == [tag |-> "Failed", reason |-> e]

\* Line 81: the error marker, with str(e).
OnFault(op) == Failed(op)

NoCounts == [meshes |-> 0, armatures |-> 0, printed |-> FALSE]

Call(op) == [item |-> idx, op |-> op]

InitWith(names, start) ==
    /\ files \in names
    /\ fs \in SUBSET {files[i] : i \in 1..Len(files)}
    /\ scene \in start
    /\ idx = 0
    /\ pc = "loop"
    /\ fbx_path = <<>>
    /\ glb_path = <<>>
    /\ outcome = [i \in 1..Len(files) |-> NoOutcome]
    /\ calls = <<>>
    /\ faultAt = [i \in 1..Len(files) |-> "none"]
    /\ reported = [i \in 1..Len(files) |-> NoCounts]
    /\ written = {}
    /\ imported = [i \in 1..Len(files) |-> {}]
    /\ iterator \in Iterators
    /\ banner = 0

Init == InitWith(SeqsUpTo(JobNames, MaxJobs), StartScenes)

\* Lines 33-35: the next file name, and the two paths.
NextItem ==
    /\ pc = "loop"
    /\ NextIndex(idx) <= Len(files)
    /\ idx' = NextIndex(idx)
    /\ fbx_path' = files[idx']
    /\ glb_path' = GlbName(files[idx'])
    /\ pc' = "check"
    /\ UNCHANGED <<files, fs, iterator, imported, scene, outcome, calls, faultAt, reported, written, banner>>

\* Lines 37-39: the source does not exist.
SourceMissing ==
    /\ pc = "check"
    /\ fbx_path \notin fs
    /\ outcome' = [outcome EXCEPT ![idx] = Skipped]
    /\ pc' = AfterNotFound
    /\ UNCHANGED <<files, fs, iterator, imported, idx, fbx_path, glb_path, scene, calls, faultAt, reported,
                   written, banner>>

\* Line 37: the source exists; the try body is entered.
SourceFound ==
    /\ pc = "check"
    /\ fbx_path \in fs
    /\ pc' = "select_clear"
    /\ UNCHANGED <<files, fs, iterator, imported, idx, fbx_path, glb_path, scene, outcome, calls, faultAt,
                   reported, written, banner>>

\* The host call op raised e, leaving the scene as sc.  Lines 80-81 run for an
\* Exception; any other error passes the handler and ends the script.
Raise(op, sc, e) ==
    /\ calls' = Append(calls, Call(op))
    /\ scene' = sc
    /\ faultAt' = [faultAt EXCEPT ![idx] = op]
    /\ outcome' = IF IsException(e) THEN [outcome EXCEPT ![idx] = OnFault(op)]
                                    ELSE outcome
    /\ pc' = AfterFault(e)
    /\ UNCHANGED <<files, fs, iterator, idx, fbx_path, glb_path, banner>>

\* The host call op returned, leaving the scene as sc.
Return(op, sc) ==
    /\ calls' = Append(calls, Call(op))
    /\ scene' = sc
    /\ UNCHANGED <<files, fs, iterator, idx, fbx_path, glb_path, faultAt, banner>>

\* Line 43.
ClearSelect ==
    /\ pc = "select_clear"
    /\ \/ /\ Return("select_clear", SelectAll(scene))
          /\ pc' = StepAfter("select_clear")
          /\ UNCHANGED <<outcome, reported, written, imported>>
       \/ /\ \E e \in ErrorClasses : Raise("select_clear", scene, e)
          /\ UNCHANGED <<reported, written, imported>>

\* Line 44.
ClearDelete ==
    /\ pc = "delete"
    /\ \/ /\ Return("delete", DeleteSelected(scene))
          /\ pc' = StepAfter("delete")
          /\ UNCHANGED <<outcome, reported, written, imported>>
       \/ /\ \E e \in ErrorClasses : Raise("delete", scene, e)
          /\ UNCHANGED <<reported, written, imported>>

\* Lines 47-49.  A call of the loop that raises leaves the blocks removed that
\* the loop had removed by then.
ClearMeshes ==
    /\ pc = "purge_meshes"
    /\ \/ /\ Return("purge_meshes", PurgeMeshes(scene))
          /\ pc' = StepAfter("purge_meshes")
          /\ UNCHANGED <<outcome, reported, written, imported>>
       \/ /\ \E left \in 0..Card(OrphanMeshes(scene)), e \in ErrorClasses :
                Raise("purge_meshes", PurgeMeshLoop(scene, 1, left), e)
          /\ UNCHANGED <<reported, written, imported>>

\* Lines 50-52.
ClearArmatures ==
    /\ pc = "purge_armatures"
    /\ \/ /\ Return("purge_armatures", PurgeArmatures(scene))
          /\ pc' = StepAfter("purge_armatures")
          /\ UNCHANGED <<outcome, reported, written, imported>>
       \/ /\ \E left \in 0..Card(OrphanArmatures(scene)), e \in ErrorClasses :
                Raise("purge_armatures", PurgeArmatureLoop(scene, 1, left), e)
          /\ UNCHANGED <<reported, written, imported>>

\* Lines 53-55.
ClearActions ==
    /\ pc = "purge_actions"
    /\ \/ /\ Return("purge_actions", PurgeActions(scene))
          /\ pc' = StepAfter("purge_actions")
          /\ UNCHANGED <<outcome, reported, written, imported>>
       \/ /\ \E left \in 0..Card(OrphanActions(scene)), e \in ErrorClasses :
                Raise("purge_actions", PurgeActionLoop(scene, 1, left), e)
          /\ UNCHANGED <<reported, written, imported>>

\* Lines 58-59.  An import that raises may have loaded part of the file.
ImportFbx ==
    /\ pc = "import"
    /\ \/ /\ \E c \in Contents(idx) :
                /\ Return("import", Import(scene, c))
                /\ imported' = [imported EXCEPT ![idx] = c.objects]
          /\ pc' = StepAfter("import")
          /\ UNCHANGED <<outcome, reported, written>>
       \/ /\ \E c \in PartialContents(idx), e \in ErrorClasses :
                /\ Raise("import", Import(scene, c), e)
                /\ imported' = [imported EXCEPT ![idx] = c.objects]
          /\ UNCHANGED <<reported, written>>

\* Lines 62-64.
CountObjects ==
    /\ pc = "count"
    /\ \/ /\ Return("count", scene)
          /\ reported' = [reported EXCEPT ![idx] =
                 [meshes |-> MeshCount(scene), armatures |-> ArmatureCount(scene),
                  printed |-> TRUE]]
          /\ pc' = AfterCount(MeshCount(scene), ArmatureCount(scene))
          /\ UNCHANGED <<outcome, written, imported>>
       \/ /\ \E e \in ErrorClasses : Raise("count", scene, e)
          /\ UNCHANGED <<reported, written, imported>>

\* Line 67.
ExportSelect ==
    /\ pc = "select_export"
    /\ \/ /\ Return("select_export", SelectAll(scene))
          /\ pc' = StepAfter("select_export")
          /\ UNCHANGED <<outcome, reported, written, imported>>
       \/ /\ \E e \in ErrorClasses : Raise("select_export", scene, e)
          /\ UNCHANGED <<reported, written, imported>>

File(whole) ==
    [item |-> idx, path |-> glb_path, complete |-> whole, origins |-> ExportedOrigins(scene)]

\* Lines 70-78.  An export that raises may leave a half-written file behind.
ExportGltf ==
    /\ pc = "export"
    /\ \/ /\ Return("export", scene)
          /\ written' = written \cup {File(TRUE)}
          /\ outcome' = [outcome EXCEPT ![idx] = Converted]
          /\ pc' = StepAfter("export")
          /\ UNCHANGED <<reported, imported>>
       \/ /\ \E e \in ErrorClasses : Raise("export", scene, e)
          /\ \/ written' = written
             \/ written' = written \cup {File(FALSE)}
          /\ UNCHANGED <<reported, imported>>

\* Lines 83-90: the list is exhausted; the closing banner.
Finish ==
    /\ pc = "loop"
    /\ NextIndex(idx) > Len(files)
    /\ banner' = banner + 1
    /\ pc' = "done"
    /\ UNCHANGED <<files, fs, iterator, imported, idx, fbx_path, glb_path, scene, outcome, calls, faultAt,
                   reported, written>>

Next ==
    \/ NextItem
    \/ SourceMissing
    \/ SourceFound
    \/ ClearSelect
    \/ ClearDelete
    \/ ClearMeshes
    \/ ClearArmatures
    \/ ClearActions
    \/ ImportFbx
    \/ CountObjects
    \/ ExportSelect
    \/ ExportGltf
    \/ Finish

Spec == Init /\ [][Next]_vars

\* The interpreter runs the script to its end: a statement that can run, runs.
FairSpec == Spec /\ WF_vars(Next)

-----------------------------------------------------------------------------
(* The naming specification: the script run on every one-item job list     *)
(* whose file name is a short prefix followed by ".fbx".                   *)

Alphabet == {"A", " ", ".", "f", "b", "x"}

NamingNames == { prefix \o FBX : prefix \in SeqsUpTo(Alphabet, MaxPrefix) }

InitNaming == InitWith({ <<n>> : n \in NamingNames }, {EmptyScene})

SpecNaming == InitNaming /\ [][Next]_vars

-----------------------------------------------------------------------------
(* Observations used by the properties.                                    *)

Items == 1..Len(files)

IsPrefix(s, t) == Len(s) <= Len(t) /\ SubSeq(t, 1, Len(s)) = s

\* The host calls issued for item i, in order.
OpsOf(i) ==
    LET mine == SelectSeq(calls, LAMBDA c : c.item = i)
    IN  [n \in 1..Len(mine) |-> mine[n].op]

\* The item of the latest import call, 0 if there was none.
LastImporter ==
    LET at == {n \in 1..Len(calls) : calls[n].op = "import"}
    IN  IF at = {} THEN 0
        ELSE calls[CHOOSE n \in at : \A m \in at : m <= n].item

NoOrphans(sc) ==
    OrphanMeshes(sc) = {} /\ OrphanArmatures(sc) = {} /\ OrphanActions(sc) = {}

Blocks(sc) == sc.meshes \cup sc.armatures \cup sc.actions

\* The outcome an item gets from its own source and its own host calls alone.
OwnOutcome(i) ==
    IF files[i] \notin fs THEN Skipped
    ELSE IF faultAt[i] = "none" THEN Converted
    ELSE Failed(faultAt[i])

Settled(i) == outcome[i].tag # "none"

-----------------------------------------------------------------------------
(* C1  Completion guarantee: whatever the job list (the empty one too) and *)
(* whatever each item's outcome, the loop ends, no fault leaves it, and    *)
(* the closing banner is printed exactly once, after the last item.        *)
C1_Completion ==
    /\ <>(pc = "done")
    /\ [](banner = IF pc = "done" THEN 1 ELSE 0)
    /\ [](pc = "done" => idx = Len(files) /\ \A i \in Items : Settled(i))
    /\ [](pc # "aborted")

(* C2  Fault containment: after a host call of item k raised, every later  *)
(* item is still attempted, and its outcome is the one its own source and  *)
(* its own host calls give it; a failure never ends the batch.             *)
C2_FaultContainment ==
    \A k \in Items : faultAt[k] # "none" =>
        /\ pc # "aborted"
        /\ pc \in {"done", "aborted"} => \A j \in (k + 1)..Len(files) : Settled(j)
        /\ \A j \in (k + 1)..Len(files) : Settled(j) => outcome[j] = OwnOutcome(j)

(* C3  Isolation between jobs: when import is issued the scene holds no    *)
(* object and no mesh, armature or action block with zero users; so the    *)
(* counts printed for an item and the content it exports are those of its  *)
(* own import only.                                                        *)
C3_Isolation ==
    /\ pc = "import" => scene.objects = {} /\ NoOrphans(scene)
    /\ pc \in {"count", "select_export", "export"} =>
           \A o \in scene.objects : o.origin = idx
    /\ pc \in {"select_export", "export"} =>
           /\ reported[idx].printed
           /\ reported[idx].meshes =
                  Card({o \in scene.objects : o.origin = idx /\ o.type = "MESH"})
           /\ reported[idx].armatures =
                  Card({o \in scene.objects : o.origin = idx /\ o.type = "ARMATURE"})
    /\ \A f \in written : f.origins \subseteq {f.item}

(* C4  Skip-on-missing: an item whose source does not exist is marked      *)
(* Skipped, no host call is issued for it, the scene is left as it was and *)
(* no destination file is written for it.                                  *)
C4_SkipOnMissing ==
    /\ [][(pc = "check" /\ fbx_path \notin fs) =>
             /\ outcome'[idx] = Skipped
             /\ pc' = "loop"
             /\ scene' = scene /\ calls' = calls /\ written' = written]_vars
    /\ [](\A i \in Items : (Settled(i) /\ files[i] \notin fs) =>
             /\ outcome[i] = Skipped
             /\ OpsOf(i) = <<>>
             /\ \A f \in written : f.item # i)

C4_Witness ==
    /\ Len(files) >= 2
    /\ outcome[1].tag = "Converted" /\ outcome[2].tag = "Skipped"
    /\ scene.objects # {}

(* C5  Naming contract: the destination name is the source name with only  *)
(* its trailing ".fbx" replaced by ".glb"; every other character is kept.  *)
C5_NamingContract ==
    pc = "check" =>
        glb_path = SubSeq(fbx_path, 1, Len(fbx_path) - Len(FBX)) \o GLB

(* C6  Idempotence of reset: two resets in a row leave what one leaves,    *)
(* and that is a scene with no object and no mesh, armature or action      *)
(* block at all.                                                           *)
C6_ResetEmpties ==
    LET once == ResetScene(scene)
    IN  ResetScene(once) = once /\ once = EmptyScene

(* C7  Outcome classification and output: an item whose source exists is   *)
(* Converted exactly when all its host calls returned, Failed with the     *)
(* fault's text exactly when one raised; the completed exports are one per *)
(* Converted item, each at that item's destination path.                   *)
C7_Classification ==
    /\ \A i \in Items : (files[i] \in fs /\ (Settled(i) \/ faultAt[i] # "none")) =>
           /\ outcome[i] = Converted <=> faultAt[i] = "none"
           /\ outcome[i] = Converted => OpsOf(i) = StepOrder
           /\ \A e \in Steps : outcome[i] = Failed(e) <=> faultAt[i] = e
           /\ outcome[i].tag \in {"Converted", "Failed"}
    /\ \A i \in Items :
           LET done == {f \in written : f.item = i /\ f.complete}
           IN  IF outcome[i] = Converted
               THEN Card(done) = 1 /\ \A f \in done : f.path = GlbName(files[i])
               ELSE done = {}

(* C8  Step ordering within a job: the host calls of an item are a prefix  *)
(* of reset, import, count, select, export, each at most once; a call is   *)
(* issued only if the ones before it returned; the counts change nothing:  *)
(* once printed, the select for export follows.                            *)
C8_StepOrdering ==
    \A i \in Items :
        LET ops == OpsOf(i)
        IN  /\ IsPrefix(ops, StepOrder)
            /\ faultAt[i] # "none" => ops # <<>> /\ ops[Len(ops)] = faultAt[i]
            /\ reported[i].printed =>
                   \/ i = idx /\ pc = "select_export"
                   \/ IsPrefix(SubSeq(StepOrder, 1, Position("select_export")), ops)

C8_Witness ==
    \E i \in Items :
        /\ outcome[i] = Converted
        /\ reported[i].printed /\ reported[i].meshes = 0 /\ reported[i].armatures = 0

(* C9  Sequential single pass without retry: items are taken in list       *)
(* order; the next item begins only when the current one has its outcome;  *)
(* no item is attempted twice; and when the script has stopped every item  *)
(* has been attempted once and has its one outcome.                        *)
C9_SinglePass ==
    /\ \A i \in Items :
           /\ i < idx => Settled(i)
           /\ i > idx => ~Settled(i) /\ OpsOf(i) = <<>>
           /\ Card({n \in 1..Len(calls) :
                      calls[n].item = i /\ calls[n].op = "select_clear"}) <= 1
    /\ \A n \in 1..(Len(calls) - 1) : calls[n].item <= calls[n + 1].item
    /\ pc \in {"done", "aborted"} =>
           \A i \in Items : Settled(i) /\ outcome[i] = OwnOutcome(i)

(* C10  as claimed: when an item's iteration has ended nothing that was    *)
(* imported is still loaded, neither when the next iteration begins nor at *)
(* the closing banner.                                                     *)
C10_NothingOutlives ==
    pc \in {"loop", "check", "done"} =>
        /\ \A o \in scene.objects : o.origin = 0
        /\ \A b \in Blocks(scene) : b.origin = 0

\* Where the latest import call stands in the calls issued, 0 if none.
LastImportAt ==
    LET at == {n \in 1..Len(calls) : calls[n].op = "import"}
    IN  IF at = {} THEN 0 ELSE CHOOSE n \in at : \A m \in at : m <= n

\* bpy.ops.object.delete() has returned since the latest import call.
DeletedSinceImport ==
    \E n \in (LastImportAt + 1)..Len(calls) :
        calls[n].op = "delete" /\ faultAt[calls[n].item] # "delete"

\* Objects whatever their selection.
Plain(objs) == {[o EXCEPT !.sel = FALSE] : o \in objs}

(* C10  as amended: the objects an item imported are not released when its *)
(* iteration ends: they are all in the scene, and no other imported object *)
(* is, until bpy.ops.object.delete() of a later item returns, or to the    *)
(* closing banner or the end of the script when none does; from then to    *)
(* the next import call no imported object is in the scene, so none is     *)
(* when import is issued.  While an object is in the scene so are the data *)
(* block and the action it uses.                                           *)
C10_ObjectsStayUntilDelete ==
    LET loaded == Plain({o \in scene.objects : o.origin >= 1})
    IN  /\ loaded = IF LastImporter = 0 \/ DeletedSinceImport
                    THEN {} ELSE Plain(imported[LastImporter])
        /\ \A i \in Items : \A o \in imported[i] : o.origin = i
        /\ pc = "import" => loaded = {}
        /\ \A o \in scene.objects :
               /\ o.type = "MESH" =>
                      \E b \in scene.meshes : b.origin = o.origin /\ b.name = o.data
               /\ o.type = "ARMATURE" =>
                      \E b \in scene.armatures : b.origin = o.origin /\ b.name = o.data
               /\ o.act # "" =>
                      \E b \in scene.actions : b.origin = o.origin /\ b.name = o.act

C10_Witness ==
    /\ pc = "done" /\ Len(files) >= 2
    /\ outcome[1].tag = "Converted" /\ outcome[2].tag = "Failed"
    /\ faultAt[2] = "delete"
    /\ imported[1] # {} /\ imported[2] = {}
    /\ Plain({o \in scene.objects : o.origin >= 1}) = Plain(imported[1])

=============================================================================
